---- MODULE Spec2Model ----
(***************************************************************************)
(* html2pdf: the option parsers of src/src/cli.rs (PaperSize, Margin) and  *)
(* the orchestration of src/src/lib.rs (run, html_to_pdf, print_to_pdf).   *)
(* Strings are sequences of one-character strings.                         *)
(***************************************************************************)
EXTENDS Integers, Sequences, FiniteSets, TLC

VARIABLES
    pc,         \* position of the program
    s,          \* the string handed to a FromStr implementation
    margin,     \* Result<Margin, Error> of Margin::from_str
    pdf_margin, \* margin_top/right/bottom/left of the PrintToPdfOptions
    paper,      \* Result<PaperSize, Error> of PaperSize::from_str
    opt,        \* the Options fields run reads: input, output, wait
    input,      \* run's canonicalized input
    output,     \* run's output path
    url,        \* the file:// URL handed to the browser
    bytes,      \* the bytes print_to_pdf returned
    written,    \* what fs::write wrote: [path, data]
    err,        \* the Error the program ended with
    calls       \* the external calls made so far, in order

vars == <<pc, s, margin, pdf_margin, paper, opt, input, output, url, bytes,
          written, err, calls>>

\* ------------------------------------------------------------------ bounds

\* longest margin string enumerated
MaxMarginLen == 7
\* longest paper-size string enumerated exhaustively
MaxPaperLen == 2
\* longest input path enumerated
MaxPathLen == 3

None == "None"

\* ----------------------------------------------------------------- strings

RECURSIVE StringsUpTo(_, _)
StringsUpTo(alphabet, n) ==
    IF n = 0 THEN {<<>>}
    ELSE LET shorter == StringsUpTo(alphabet, n - 1)
         IN  shorter \cup {Append(w, c) : w \in shorter, c \in alphabet}

\* str::split(c): the pieces between occurrences of c, empty pieces kept
RECURSIVE Split(_, _)
Split(str, c) ==
    IF str = <<>> THEN << <<>> >>
    ELSE LET rest == Split(Tail(str), c)
         IN  IF Head(str) = c
             THEN << <<>> >> \o rest
             ELSE << <<Head(str)>> \o Head(rest) >> \o Tail(rest)

NonEmpty(piece) == piece # <<>>

\* s.split(' ').filter(|s| !s.is_empty()).collect()
SplitValues(str) == SelectSeq(Split(str, " "), NonEmpty)

\* ------------------------------------------------------------ f64 parsing

Digits == <<"0", "1", "2", "3", "4", "5", "6", "7", "8", "9">>

IsDigit(c) == \E i \in DOMAIN Digits : Digits[i] = c

DigitValue(c) == (CHOOSE i \in DOMAIN Digits : Digits[i] = c) - 1

IsDot(c) == c = "."

\* str::parse::<f64> succeeds: decimal digits with at most one '.', at
\* least one digit, nothing else (no surrounding whitespace is accepted)
ParseF64Ok(tok) ==
    /\ \A i \in DOMAIN tok : IsDigit(tok[i]) \/ IsDot(tok[i])
    /\ Len(SelectSeq(tok, IsDot)) <= 1
    /\ Len(SelectSeq(tok, IsDigit)) >= 1

RECURSIVE DecimalValue(_)
DecimalValue(ds) ==
    IF ds = <<>> THEN 0
    ELSE 10 * DecimalValue(SubSeq(ds, 1, Len(ds) - 1)) + DigitValue(ds[Len(ds)])

\* the digits after the '.'
FractionLen(tok) ==
    IF \E i \in DOMAIN tok : IsDot(tok[i])
    THEN Len(tok) - (CHOOSE i \in DOMAIN tok : IsDot(tok[i]))
    ELSE 0

\* a decimal number mantissa / 10^scale, trailing fraction zeros removed, so
\* that equal numbers have equal representations
RECURSIVE Decimal(_, _)
Decimal(mantissa, scale) ==
    IF scale > 0 /\ mantissa % 10 = 0
    THEN Decimal(mantissa \div 10, scale - 1)
    ELSE [mantissa |-> mantissa, scale |-> scale]

\* the number str::parse::<f64> returns for a string it accepts
ParseF64(tok) == Decimal(DecimalValue(SelectSeq(tok, IsDigit)), FractionLen(tok))

\* ------------------------------------------------------------------ Margin

MarginOk(shape, values) == [kind |-> shape, values |-> values, arg |-> <<>>]

MarginErr(error, arg) == [kind |-> error, values |-> <<>>, arg |-> arg]

IsMargin(m) == m.kind \in {"All", "VerticalHorizontal", "TopRightBottomLeft"}

\* the 1-value arm of Margin::from_str
FromStrAll(str, values) ==
    IF ParseF64Ok(str)
    THEN MarginOk("All", <<ParseF64(str)>>)
    ELSE MarginErr("InvalidMarginValue", <<>>)

\* the 2-value arm of Margin::from_str
FromStrVerticalHorizontal(str, values) ==
    IF ParseF64Ok(values[1]) /\ ParseF64Ok(values[2])
    THEN MarginOk("VerticalHorizontal",
                  <<ParseF64(values[1]), ParseF64(values[2])>>)
    ELSE MarginErr("InvalidMarginValue", <<>>)

\* the 4-value arm of Margin::from_str: left is parsed from values[2] of
\* the source (the third value); the fourth value is never parsed
FromStrTopRightBottomLeft(str, values) ==
    IF ParseF64Ok(values[1]) /\ ParseF64Ok(values[2]) /\ ParseF64Ok(values[3])
    THEN MarginOk("TopRightBottomLeft",
                  <<ParseF64(values[1]), ParseF64(values[2]),
                    ParseF64(values[3]), ParseF64(values[3])>>)
    ELSE MarginErr("InvalidMarginValue", <<>>)

\* <Margin as FromStr>::from_str
MarginFromStr(str) ==
    LET values == SplitValues(str)
    IN  CASE Len(values) = 1 -> FromStrAll(str, values)
          [] Len(values) = 2 -> FromStrVerticalHorizontal(str, values)
          [] Len(values) = 4 -> FromStrTopRightBottomLeft(str, values)
          [] OTHER -> MarginErr("InvalidMarginDefinition", str)

margin_top(m) == m.values[1]

\* margin_right returning the vertical value
margin_right_vertical(m) == m.values[1]

margin_right(m) ==
    CASE m.kind = "All" -> m.values[1]
      [] m.kind = "VerticalHorizontal" -> m.values[2]
      [] m.kind = "TopRightBottomLeft" -> m.values[2]

margin_bottom(m) ==
    CASE m.kind = "All" -> m.values[1]
      [] m.kind = "VerticalHorizontal" -> m.values[1]
      [] m.kind = "TopRightBottomLeft" -> m.values[3]

margin_left(m) ==
    CASE m.kind = "All" -> m.values[1]
      [] m.kind = "VerticalHorizontal" -> m.values[2]
      [] m.kind = "TopRightBottomLeft" -> m.values[4]

\* the margin fields of the PrintToPdfOptions run builds
PdfMargins(m) ==
    [top |-> margin_top(m), right |-> margin_right(m),
     bottom |-> margin_bottom(m), left |-> margin_left(m)]

MarginAlphabet == {" ", "1", "2", "."}

MarginInputs == StringsUpTo(MarginAlphabet, MaxMarginLen)

NoResult == [kind |-> None, values |-> <<>>, arg |-> <<>>]

\* Option<T>: None is <<>>, Some(x) is <<x>>
Some(x) == <<x>>

IsSome(option) == option # <<>>

Unwrap(option) == option[1]

NoOptions == [input |-> <<>>, output |-> <<>>, wait |-> <<>>]

NoWrite == [path |-> <<>>, data |-> None]

InitMargin ==
    /\ pc = "margin_arg"
    /\ s \in MarginInputs
    /\ margin = NoResult
    /\ pdf_margin = None
    /\ paper = NoResult
    /\ opt = NoOptions
    /\ input = <<>>
    /\ output = <<>>
    /\ url = <<>>
    /\ bytes = None
    /\ written = NoWrite
    /\ err = None
    /\ calls = <<>>

\* clap parses --margin with Margin::from_str; an Err ends the program
ParseMarginArg ==
    /\ pc = "margin_arg"
    /\ margin' = MarginFromStr(s)
    /\ pc' = IF IsMargin(margin') THEN "margin_parsed" ELSE "usage_error"
    /\ err' = IF IsMargin(margin') THEN None ELSE margin'.kind
    /\ UNCHANGED <<s, pdf_margin, paper, opt, input, output, url, bytes,
                   written, calls>>

\* run maps the parsed margin into the PrintToPdfOptions
BuildPdfMargins ==
    /\ pc = "margin_parsed"
    /\ pdf_margin' = PdfMargins(margin)
    /\ pc' = "margin_built"
    /\ UNCHANGED <<s, margin, paper, opt, input, output, url, bytes,
                   written, err, calls>>

NextMargin == ParseMarginArg \/ BuildPdfMargins

SpecMargin == InitMargin /\ [][NextMargin]_vars

\* ----------------------------------------------------- claims about Margin

\* the values of the margin string: its space-separated non-empty pieces
Values == SplitValues(s)

AllNumeric == \A i \in DOMAIN Values : ParseF64Ok(Values[i])

Number(i) == ParseF64(Values[i])

MarginParsed == pc \in {"margin_parsed", "margin_built"}

\* C1: a margin string of exactly four numeric values a b c d parses to the
\* four-sided shape and resolves to top = a, right = b, bottom = c, left = d
FourValuesResolveInOrder ==
    (pc # "margin_arg" /\ Len(Values) = 4 /\ AllNumeric) =>
        /\ MarginParsed
        /\ margin.kind = "TopRightBottomLeft"
        /\ pc = "margin_built" =>
               pdf_margin = [top |-> Number(1), right |-> Number(2),
                             bottom |-> Number(3), left |-> Number(4)]

\* C2: a margin string of exactly two numeric values v h parses to the
\* vertical/horizontal shape and resolves to top = bottom = v and
\* left = right = h
TwoValuesResolveVerticalHorizontal ==
    (pc # "margin_arg" /\ Len(Values) = 2 /\ AllNumeric) =>
        /\ MarginParsed
        /\ margin.kind = "VerticalHorizontal"
        /\ pc = "margin_built" =>
               pdf_margin = [top |-> Number(1), right |-> Number(2),
                             bottom |-> Number(1), left |-> Number(2)]

\* two different values separated by more than one space, resolved
TwoValuesResolved ==
    /\ pc = "margin_built"
    /\ Len(Values) = 2
    /\ Number(1) # Number(2)
    /\ Len(s) > Len(Values[1]) + Len(Values[2]) + 1

\* C5: a value count other than 1, 2 or 4 yields InvalidMarginDefinition
\* carrying the original string; a count of 1, 2 or 4 with a value that is
\* no number yields InvalidMarginValue; a Margin is returned only when
\* every value is a number
MarginValidatesWholeInput ==
    pc # "margin_arg" =>
        /\ Len(Values) \notin {1, 2, 4} =>
               margin = MarginErr("InvalidMarginDefinition", s)
        /\ (Len(Values) \in {1, 2, 4} /\ ~AllNumeric) =>
               margin.kind = "InvalidMarginValue"
        /\ IsMargin(margin) => AllNumeric

\* C8: a margin string of exactly one numeric value v, with any number of
\* spaces before or after it, parses to the uniform shape and resolves to
\* top = right = bottom = left = v
OneValueIgnoresSurroundingSpaces ==
    (pc # "margin_arg" /\ Len(Values) = 1 /\ AllNumeric) =>
        /\ MarginParsed
        /\ margin.kind = "All"
        /\ pc = "margin_built" =>
               pdf_margin = [top |-> Number(1), right |-> Number(1),
                             bottom |-> Number(1), left |-> Number(1)]

\* --------------------------------------------------------------- PaperSize

UpperCase == <<"A", "B", "C", "D", "E", "F", "G", "H", "I", "J", "K", "L", "M",
               "N", "O", "P", "Q", "R", "S", "T", "U", "V", "W", "X", "Y", "Z">>

LowerCase == <<"a", "b", "c", "d", "e", "f", "g", "h", "i", "j", "k", "l", "m",
               "n", "o", "p", "q", "r", "s", "t", "u", "v", "w", "x", "y", "z">>

\* u8::to_ascii_lowercase: 'A'..'Z' map to 'a'..'z', all else is unchanged
CharToAsciiLowercase(c) ==
    IF \E i \in DOMAIN UpperCase : UpperCase[i] = c
    THEN LowerCase[CHOOSE i \in DOMAIN UpperCase : UpperCase[i] = c]
    ELSE c

\* the string as given, no letter lowered
to_ascii_lowercase_skipped(str) == str

\* str::to_ascii_lowercase
to_ascii_lowercase(str) == [i \in DOMAIN str |-> CharToAsciiLowercase(str[i])]

PaperOk(size) == [kind |-> size, values |-> <<>>, arg |-> <<>>]

PaperErr(str) == [kind |-> "InvalidPaperSize", values |-> <<>>, arg |-> str]

\* the variants of enum PaperSize
PaperSizes == {"A0", "A1", "A2", "A3", "A4", "A5", "A6", "Letter", "Legal",
               "Tabloid"}

\* the value PaperSize::from_str reports in its error
InvalidPaperSizeArg(str) == str

\* <PaperSize as FromStr>::from_str
PaperSizeFromStr(str) ==
    LET lower == to_ascii_lowercase(str)
    IN  CASE lower = <<"a", "0">> -> PaperOk("A0")
          [] lower = <<"a", "1">> -> PaperOk("A1")
          [] lower = <<"a", "2">> -> PaperOk("A2")
          [] lower = <<"a", "3">> -> PaperOk("A3")
          [] lower = <<"a", "4">> -> PaperOk("A4")
          [] lower = <<"a", "5">> -> PaperOk("A5")
          [] lower = <<"a", "6">> -> PaperOk("A6")
          [] lower = <<"l", "e", "t", "t", "e", "r">> -> PaperOk("Letter")
          [] lower = <<"l", "e", "g", "a", "l">> -> PaperOk("Legal")
          [] lower = <<"t", "a", "b", "l", "o", "i", "d">> -> PaperOk("Tabloid")
          [] OTHER -> PaperErr(InvalidPaperSizeArg(str))

\* "Supported values: A4, Letter, A3, Tabloid, A2, A1, A0, A5, A6", the
\* help text of --paper
PaperHelpValues ==
    {<<"A", "4">>, <<"L", "e", "t", "t", "e", "r">>, <<"A", "3">>,
     <<"T", "a", "b", "l", "o", "i", "d">>, <<"A", "2">>, <<"A", "1">>,
     <<"A", "0">>, <<"A", "5">>, <<"A", "6">>}

\* "expected a value in A4, Letter, A3, Tabloid, A2, A1, A0, A5, A6", the
\* message of Error::InvalidPaperSize
PaperErrorValues ==
    {<<"A", "4">>, <<"L", "e", "t", "t", "e", "r">>, <<"A", "3">>,
     <<"T", "a", "b", "l", "o", "i", "d">>, <<"A", "2">>, <<"A", "1">>,
     <<"A", "0">>, <<"A", "5">>, <<"A", "6">>}

\* the names the tests parse, with the variant each must give
PaperNames ==
    {<<<<"a", "0">>, "A0">>, <<<<"a", "1">>, "A1">>, <<<<"a", "2">>, "A2">>,
     <<<<"a", "3">>, "A3">>, <<<<"a", "4">>, "A4">>, <<<<"a", "5">>, "A5">>,
     <<<<"a", "6">>, "A6">>,
     <<<<"l", "e", "t", "t", "e", "r">>, "Letter">>,
     <<<<"l", "e", "g", "a", "l">>, "Legal">>,
     <<<<"t", "a", "b", "l", "o", "i", "d">>, "Tabloid">>}

\* u8::to_ascii_uppercase
CharToAsciiUppercase(c) ==
    IF \E i \in DOMAIN LowerCase : LowerCase[i] = c
    THEN UpperCase[CHOOSE i \in DOMAIN LowerCase : LowerCase[i] = c]
    ELSE c

\* the spellings of a lower-case name: any of its letters in upper case
Spellings(name) ==
    {[i \in DOMAIN name |->
        IF i \in upper THEN CharToAsciiUppercase(name[i]) ELSE name[i]] :
     upper \in SUBSET DOMAIN name}

PaperAlphabet == {"a", "A", "4", "7", " ", "l"}

\* every short string, every spelling of every name, and every spelling
\* with a space or a letter before or after it
PaperInputs ==
    LET spelled == UNION {Spellings(n[1]) : n \in PaperNames}
    IN  StringsUpTo(PaperAlphabet, MaxPaperLen) \cup spelled
        \cup {<<c>> \o w : c \in {" ", "a"}, w \in spelled}
        \cup {w \o <<c>> : c \in {" ", "l"}, w \in spelled}
        \cup {<<"p", "l", "o", "p">>}

InitPaper ==
    /\ pc = "paper_arg"
    /\ s \in PaperInputs
    /\ margin = NoResult
    /\ pdf_margin = None
    /\ paper = NoResult
    /\ opt = NoOptions
    /\ input = <<>>
    /\ output = <<>>
    /\ url = <<>>
    /\ bytes = None
    /\ written = NoWrite
    /\ err = None
    /\ calls = <<>>

\* clap parses --paper with PaperSize::from_str; an Err ends the program
ParsePaperArg ==
    /\ pc = "paper_arg"
    /\ paper' = PaperSizeFromStr(s)
    /\ pc' = IF paper'.kind \in PaperSizes THEN "paper_parsed" ELSE "usage_error"
    /\ err' = IF paper'.kind \in PaperSizes THEN None ELSE paper'.kind
    /\ UNCHANGED <<s, margin, pdf_margin, opt, input, output, url, bytes,
                   written, calls>>

NextPaper == ParsePaperArg

SpecPaper == InitPaper /\ [][NextPaper]_vars

\* -------------------------------------------------- claims about PaperSize

\* two strings are equal up to the case of their ASCII letters
EqIgnoreAsciiCase(a, b) ==
    /\ Len(a) = Len(b)
    /\ \A i \in DOMAIN a :
           CharToAsciiUppercase(a[i]) = CharToAsciiUppercase(b[i])

\* C3: a string that is one of the ten names up to ASCII case parses to the
\* PaperSize of that name; every other string, the empty string and a name
\* with a space around it included, gives InvalidPaperSize carrying the
\* string as it was given
PaperSizeParsingCaseInsensitiveTotal ==
    pc # "paper_arg" =>
        /\ \A n \in PaperNames :
               EqIgnoreAsciiCase(s, n[1]) => (paper = PaperOk(n[2]) /\ err = None)
        /\ (\A n \in PaperNames : ~EqIgnoreAsciiCase(s, n[1])) =>
               (paper = PaperErr(s) /\ err = "InvalidPaperSize")

\* a name spelled with both upper-case and lower-case letters was accepted
MixedCasePaperParsed ==
    /\ pc = "paper_parsed"
    /\ paper.kind = "Legal"
    /\ \E i \in DOMAIN s : CharToAsciiUppercase(s[i]) # s[i]
    /\ \E i \in DOMAIN s : CharToAsciiLowercase(s[i]) # s[i]

\* C4: the names PaperSize parsing accepts, up to case, are exactly the
\* supported values of the --paper help text and of the InvalidPaperSize
\* message
AcceptedPaperNamesAreTheDocumentedOnes ==
    /\ PaperHelpValues = PaperErrorValues
    /\ pc # "paper_arg" =>
           (paper.kind \in PaperSizes <=>
                \E n \in PaperHelpValues : EqIgnoreAsciiCase(s, n))

\* ------------------------------------------------------------------- paths

\* the index of the last c in str, 0 when there is none
LastIndexOf(str, c) ==
    IF \E i \in DOMAIN str : str[i] = c
    THEN CHOOSE i \in DOMAIN str :
             str[i] = c /\ \A j \in DOMAIN str : str[j] = c => j <= i
    ELSE 0

\* Path::components read from the back: trailing separators and trailing
\* "." components do not count
RECURSIVE TrimTrailing(_)
TrimTrailing(path) ==
    LET n == Len(path)
    IN  IF n >= 2 /\ path[n] = "/" THEN TrimTrailing(SubSeq(path, 1, n - 1))
        ELSE IF n >= 2 /\ path[n] = "." /\ path[n - 1] = "/"
        THEN TrimTrailing(SubSeq(path, 1, n - 1))
        ELSE path

\* the last component of the path, as text
LastComponent(path) ==
    LET t == TrimTrailing(path)
    IN  SubSeq(t, LastIndexOf(t, "/") + 1, Len(t))

\* Path::file_name is Some: the last component is a normal one, neither
\* the root, nor ".", nor ".."
HasFileName(path) == LastComponent(path) \notin {<<>>, <<".">>, <<".", ".">>}

\* the length of Path::file_stem: the file name up to its last '.', all of
\* it when it has no '.' or only a leading one
FileStemLen(name) ==
    IF LastIndexOf(name, ".") <= 1 THEN Len(name) ELSE LastIndexOf(name, ".") - 1

\* PathBuf::set_extension: nothing when there is no file name; otherwise
\* the path is cut right after the file stem and '.' and ext are pushed
set_extension(path, ext) ==
    IF ~HasFileName(path) THEN path
    ELSE LET t == TrimTrailing(path)
             stem_end == LastIndexOf(t, "/") + FileStemLen(LastComponent(path))
         IN  SubSeq(t, 1, stem_end) \o <<".">> \o ext

Pdf == <<"p", "d", "f">>

\* opt.input(), the path the default output is derived from
DefaultOutputSource(options, canonical) == options.input

\* the output path of run
OutputPath(options, canonical) ==
    IF IsSome(options.output) THEN Unwrap(options.output)
    ELSE set_extension(DefaultOutputSource(options, canonical), Pdf)

FileScheme == <<"f", "i", "l", "e", ":", "/", "/">>

\* a byte sequence that is no UTF-8
NonUtf8 == "\\xFF"

\* OsStr::to_str is Some
IsUtf8(path) == \A i \in DOMAIN path : path[i] # NonUtf8

\* format!("file://{}", os)
FileUrl(path) == FileScheme \o path

\* --------------------------------------------------------------------- run

PathAlphabet == {"a", ".", "/"}

\* clap rejects an empty path
InputArgs == StringsUpTo(PathAlphabet, MaxPathLen) \ {<<>>}

OutputArgs == {<<>>, Some(<<"o">>), Some(<<"a", ".", "a">>)}

WaitArgs == {<<>>, Some("150ms")}

\* what fs::canonicalize may return: an absolute path of the file system
CanonicalPaths == {<<"/", "a">>, <<"/", "r", "/", "a", ".", "a">>,
                   <<"/", NonUtf8>>}

\* what Tab::print_to_pdf may return
PdfBytes == {"%PDF-1", "%PDF-2"}

InitRun ==
    /\ pc = "run"
    /\ s = <<>>
    /\ margin = NoResult
    /\ pdf_margin = None
    /\ paper = NoResult
    /\ opt \in [input : InputArgs, output : OutputArgs, wait : WaitArgs]
    /\ input = <<>>
    /\ output = <<>>
    /\ url = <<>>
    /\ bytes = None
    /\ written = NoWrite
    /\ err = None
    /\ calls = <<>>

Call(name, arg, ok) == [call |-> name, arg |-> arg, ok |-> ok]

\* an external call failed: the Error is returned up to main
Fail(name, arg, error) ==
    /\ calls' = Append(calls, Call(name, arg, FALSE))
    /\ pc' = "failed"
    /\ err' = error

Succeed(name, arg, next) ==
    /\ calls' = Append(calls, Call(name, arg, TRUE))
    /\ pc' = next
    /\ err' = None

\* run: fs::canonicalize(opt.input())
Canonicalize ==
    /\ pc = "run"
    /\ \/ /\ Fail("canonicalize", opt.input, "IoError")
          /\ UNCHANGED input
       \/ \E path \in CanonicalPaths :
              /\ Succeed("canonicalize", opt.input, "output")
              /\ input' = path
    /\ UNCHANGED <<s, margin, pdf_margin, paper, opt, output, url, bytes, written>>

\* run: the output path and the PrintToPdfOptions, then html_to_pdf is called
BuildOutput ==
    /\ pc = "output"
    /\ output' = OutputPath(opt, input)
    /\ pc' = "html_to_pdf"
    /\ UNCHANGED <<s, margin, pdf_margin, paper, opt, input, url, bytes,
                   written, err, calls>>

\* html_to_pdf: the input as a str, then the file:// URL
BuildUrl ==
    /\ pc = "html_to_pdf"
    /\ IF IsUtf8(input)
       THEN /\ url' = FileUrl(input)
            /\ pc' = "launch_options"
            /\ err' = None
       ELSE /\ url' = url
            /\ pc' = "failed"
            /\ err' = "IoError"
    /\ UNCHANGED <<s, margin, pdf_margin, paper, opt, input, output, bytes,
                   written, calls>>

\* an external call of print_to_pdf: it fails with HeadlessChromeError, or
\* it succeeds and the function goes on
BrowserCall(name, arg, next) ==
    /\ \/ Fail(name, arg, "HeadlessChromeError")
       \/ Succeed(name, arg, next)
    /\ UNCHANGED <<s, margin, pdf_margin, paper, opt, input, output, url,
                   bytes, written>>

\* print_to_pdf: LaunchOptionsBuilder::default().build()
BuildLaunchOptions ==
    /\ pc = "launch_options"
    /\ BrowserCall("LaunchOptionsBuilder::build", <<>>, "browser")

\* print_to_pdf: Browser::new(options)
LaunchBrowser ==
    /\ pc = "browser"
    /\ BrowserCall("Browser::new", <<>>, "tab")

\* print_to_pdf: browser.wait_for_initial_tab()
WaitForInitialTab ==
    /\ pc = "tab"
    /\ BrowserCall("wait_for_initial_tab", <<>>, "navigate")

\* print_to_pdf: tab.navigate_to(file_path)
NavigateTo ==
    /\ pc = "navigate"
    /\ BrowserCall("navigate_to", url, "navigating")

\* print_to_pdf without the wait: straight to the print request
AfterNavigatedNoSleep(wait) == "print"

\* where print_to_pdf goes once navigated: if let Some(wait) = wait
AfterNavigated(wait) == IF IsSome(wait) THEN "sleep" ELSE "print"

\* print_to_pdf: .wait_until_navigated()
WaitUntilNavigated ==
    /\ pc = "navigating"
    /\ BrowserCall("wait_until_navigated", <<>>, AfterNavigated(opt.wait))

\* print_to_pdf: sleep(wait)
Sleep ==
    /\ pc = "sleep"
    /\ Succeed("sleep", <<>>, "print")
    /\ UNCHANGED <<s, margin, pdf_margin, paper, opt, input, output, url,
                   bytes, written>>

\* print_to_pdf: tab.print_to_pdf(Some(pdf_options))
PrintToPdf ==
    /\ pc = "print"
    /\ \/ /\ Fail("print_to_pdf", <<>>, "HeadlessChromeError")
          /\ UNCHANGED bytes
       \/ \E data \in PdfBytes :
              /\ Succeed("print_to_pdf", <<>>, "write")
              /\ bytes' = data
    /\ UNCHANGED <<s, margin, pdf_margin, paper, opt, input, output, url, written>>

\* the path and data html_to_pdf hands to fs::write
WriteRequest(path, data) == [path |-> path, data |-> data]

\* html_to_pdf: fs::write(output, &local_pdf)
WriteOutput ==
    /\ pc = "write"
    /\ \/ /\ Fail("fs::write", output, "IoError")
          /\ UNCHANGED written
       \/ /\ Succeed("fs::write", output, "done")
          /\ written' = WriteRequest(output, bytes)
    /\ UNCHANGED <<s, margin, pdf_margin, paper, opt, input, output, url, bytes>>

NextRun ==
    \/ Canonicalize
    \/ BuildOutput
    \/ BuildUrl
    \/ BuildLaunchOptions
    \/ LaunchBrowser
    \/ WaitForInitialTab
    \/ NavigateTo
    \/ WaitUntilNavigated
    \/ Sleep
    \/ PrintToPdf
    \/ WriteOutput

SpecRun == InitRun /\ [][NextRun]_vars

\* -------------------------------------------------------- claims about run

\* the external calls of a run that succeeds, in the order of the claim
ExpectedCalls(wait) ==
    <<"canonicalize", "LaunchOptionsBuilder::build", "Browser::new",
      "wait_for_initial_tab", "navigate_to", "wait_until_navigated">>
    \o (IF IsSome(wait) THEN <<"sleep">> ELSE <<>>)
    \o <<"print_to_pdf", "fs::write">>

\* C6: the lifecycle steps happen in one fixed order, each at most once and
\* each only after the one before it succeeded: resolve the input, launch
\* the browser, get the initial tab, navigate to the file:// URL of the
\* input and wait until navigated, sleep exactly when a wait was given,
\* request the print, write the bytes it returned to the output file; a
\* run that ends well made all of them
LifecycleInFixedOrder ==
    LET expected == ExpectedCalls(opt.wait)
    IN  /\ Len(calls) <= Len(expected)
        /\ \A i \in DOMAIN calls : calls[i].call = expected[i]
        /\ \A i \in DOMAIN calls : i < Len(calls) => calls[i].ok
        /\ pc = "done" => (Len(calls) = Len(expected) /\ calls[Len(calls)].ok)
        /\ \A i \in DOMAIN calls :
               calls[i].call = "navigate_to" => calls[i].arg = FileUrl(input)
        /\ \A i \in DOMAIN calls :
               calls[i].call = "fs::write" =>
                   (bytes \in PdfBytes /\ calls[i].arg = output)
        /\ written # NoWrite =>
               (pc = "done" /\ written = [path |-> output, data |-> bytes])

\* a run with a wait wrote its output
RunWithWaitDone == pc = "done" /\ IsSome(opt.wait) /\ written # NoWrite

\* C7: the output path is the --output path when one is given; otherwise it
\* is the input path as the user gave it with its extension replaced by
\* "pdf", or with "pdf" added: some leading part of the input followed by
\* ".pdf"
OutputPathAsDocumented ==
    (Len(calls) >= 1 /\ calls[1].ok /\ pc # "output") =>
        IF IsSome(opt.output)
        THEN output = Unwrap(opt.output)
        ELSE \E k \in 0..Len(opt.input) :
                 output = SubSeq(opt.input, 1, k) \o <<".">> \o Pdf

====
